---------------------------- MODULE Spec2Model ----------------------------
(***************************************************************************)
(* TwitchData (src/unnamed/part_000): the batched lookup layer for users,  *)
(* streams and tags.  Callers register (fulfill, reject) pairs in          *)
(* insertion-ordered Maps; one async loader per kind snapshots up to 50    *)
(* keys, awaits the remote query and fans the answer out.                  *)
(*                                                                         *)
(* JavaScript is single threaded: every action below is one event-loop     *)
(* task, run from its start to the next await (or to its end).             *)
(***************************************************************************)
EXTENDS Integers, Sequences, FiniteSets, TLC

(***************************************************************************)
(* Bounds of the model.                                                    *)
(***************************************************************************)
\* number of lookup calls (getUserBasic, getStreamMeta) made in one behaviour
MaxCallers == 3
\* number of those calls that are tag lookups (getTag, getTagImmediate)
MaxTagCallers == 2
\* the batch size of a cycle; the source slices 50 keys, the model slices
\* BatchSize so that a backlog larger than one batch is reachable
BatchSize == 2
\* longest list of nodes a user or stream response carries
MaxNodes == 2
\* longest list of nodes a tag response carries
MaxTagNodes == 2
\* number of getTopTags / getMatchingTags responses in one behaviour
MaxFetches == 1
\* number of unbatched calls (searches, follow, unfollow) in one behaviour
MaxRequests == 1
\* longest list of items a search response carries
MaxItems == 3

(***************************************************************************)
(* Values.  A falsy JavaScript value (null, undefined, "") is NIL.         *)
(***************************************************************************)
NIL == "nil"

UserIds == {"1", "2"}
UserLogins == {"a"}
StreamIds == {"1", "2"}
StreamLogins == {"a", "b"}
TagIds == {"t1", "t2"}
Errors == {"err1", "err2"}

\* the value of a promise resolved with null
Null == [null |-> TRUE]
\* a null entry of a response list
NullNode == [id |-> NIL, login |-> NIL]
\* data.users of user-bulk.gql: null entries and users (User.id and
\* User.login are non-null in the remote schema)
UserNodes == {[id |-> i, login |-> l] : i \in UserIds, l \in UserLogins} \cup {NullNode}
\* data.users of stream-fetch.gql: a user with its stream (NIL when offline)
StreamNodes ==
    {[id |-> i, login |-> l, stream |-> "live"] : i \in StreamIds, l \in StreamLogins}
    \cup {[id |-> "1", login |-> "a", stream |-> NIL],
          [id |-> NIL, login |-> NIL, stream |-> NIL]}

\* The remote's tags: the name and the language flag of a tag are fixed, the
\* description comes only with the queries that ask for it.
TagName(t) == IF t = "t1" THEN "auto___lang_en" ELSE "irl"
IsLanguageTag(t) == t = "t1"
TagNode(t, name, label, desc) ==
    [id |-> t, tagName |-> name, localizedName |-> label,
     localizedDescription |-> desc, isLanguageTag |-> IsLanguageTag(t)]
\* well-formed nodes, with and without a description
GoodTagNodes == {TagNode(t, TagName(t), "label", d) : t \in TagIds, d \in {NIL, "desc"}}
\* a null entry, a node without tagName, a node without localizedName
BadTagNodes ==
    {[id |-> NIL, tagName |-> NIL, localizedName |-> NIL,
      localizedDescription |-> NIL, isLanguageTag |-> FALSE],
     TagNode("t1", NIL, "label", "desc"),
     TagNode("t2", TagName("t2"), NIL, "desc")}
TagNodes == GoodTagNodes \cup BadTagNodes

SeqsUpTo(S, n) == UNION {[1..k -> S] : k \in 0..n}

\* what get('data.users', data) can be: an array of nodes, or not an array
Response(S, n) ==
    {[isArray |-> TRUE, items |-> s] : s \in SeqsUpTo(S, n)}
    \cup {[isArray |-> FALSE, items |-> <<>>]}

UserResponses == Response(UserNodes, MaxNodes)
StreamResponses == Response(StreamNodes, MaxNodes)
TagResponses == Response(TagNodes, MaxTagNodes)

Min(a, b) == IF a < b THEN a ELSE b

(***************************************************************************)
(* Map: a JavaScript Map from key to an array of [s, f] pairs, kept as the *)
(* sequence of its entries in insertion order.  A pair is named by the     *)
(* index of the call that created it.                                      *)
(***************************************************************************)
MapHas(m, k) == \E i \in 1..Len(m) : m[i].key = k

MapGet(m, k) ==
    LET i == CHOOSE j \in 1..Len(m) : m[j].key = k IN m[i].waiters

MapDelete(m, k) == SelectSeq(m, LAMBDA e : e.key # k)

MapKeys(m) == [i \in 1..Len(m) |-> m[i].key]

\* has(k) ? get(k).push(w) : set(k, [w])
MapPush(m, k, w) ==
    IF MapHas(m, k)
    THEN [i \in 1..Len(m) |->
            IF m[i].key = k
            THEN [key |-> k, waiters |-> Append(m[i].waiters, w)]
            ELSE m[i]]
    ELSE Append(m, [key |-> k, waiters |-> <<w>>])

\* Array.prototype.slice(0, n)
Slice(s, n) == SubSeq(s, 1, Min(n, Len(s)))

Range(s) == {s[i] : i \in 1..Len(s)}

(***************************************************************************)
(* State.                                                                  *)
(***************************************************************************)
VARIABLES
    _waiting_user_ids, _waiting_user_logins,
    _waiting_stream_ids, _waiting_stream_logins,
    tag_cache, _waiting_tags,
    _loading_users, _loading_streams, _loading_tags,
    debounced,   \* debounced[k]: the debounce timer of _loadTags / _loadStreams is armed
    inflight,    \* inflight[k]: the suspended invocations of the loader of kind k
    issued,      \* issued[k]: the remote batch queries sent for kind k, in order
    callers,     \* the lookup calls made so far, in order
    notified,    \* notified[i]: the continuation calls received by call i
    burst,       \* first call of the running synchronous burst of getUserBasic calls, or 0
    fetches,     \* number of getTopTags / getMatchingTags responses handled
    fault,       \* a loader was ended by an uncaught TypeError
    requests     \* the calls of the unbatched operations (searches, follow, unfollow)

vars == <<_waiting_user_ids, _waiting_user_logins,
          _waiting_stream_ids, _waiting_stream_logins,
          tag_cache, _waiting_tags,
          _loading_users, _loading_streams, _loading_tags,
          debounced, inflight, issued, callers, notified, burst, fetches, fault,
          requests>>

userVars == <<_waiting_user_ids, _waiting_user_logins, _loading_users>>
streamVars == <<_waiting_stream_ids, _waiting_stream_logins, _loading_streams>>
tagVars == <<tag_cache, _waiting_tags, _loading_tags>>

Kinds == {"users", "streams", "tags"}

Init ==
    /\ _waiting_user_ids = <<>>
    /\ _waiting_user_logins = <<>>
    /\ _waiting_stream_ids = <<>>
    /\ _waiting_stream_logins = <<>>
    /\ tag_cache = [t \in {} |-> NIL]
    /\ _waiting_tags = <<>>
    /\ _loading_users = FALSE
    /\ _loading_streams = FALSE
    /\ _loading_tags = FALSE
    /\ debounced = [k \in {"streams", "tags"} |-> FALSE]
    /\ inflight = [k \in Kinds |-> <<>>]
    /\ issued = [k \in Kinds |-> <<>>]
    /\ callers = <<>>
    /\ notified = <<>>
    /\ burst = 0
    /\ fetches = 0
    /\ fault = FALSE
    /\ requests = <<>>

(***************************************************************************)
(* Calling continuations.                                                  *)
(***************************************************************************)
\* the number of continuation calls made so far
NotifyCount(n) == Cardinality(UNION {{i} \X (1..Len(n[i])) : i \in 1..Len(n)})

\* Settle with the pairs of the list called from its end to its start
Settle_Reversed(n, promises, how, value, q) ==
    LET base == NotifyCount(n) IN
    [i \in 1..Len(n) |->
        LET at == {x \in 1..Len(promises) : promises[x] = i} IN
        IF at # {}
        THEN n[i] \o [j \in 1..Cardinality(at) |->
                        [how |-> how, value |-> value, q |-> q,
                         seq |-> base + Len(promises) + 1
                                 - (CHOOSE x \in at : Cardinality({y \in at : y > x}) = j - 1)]]
        ELSE n[i]]

\* for(const pair of promises) pair[0|1](value), on the call log n: the
\* pair at position x of the list receives the x-th call of the loop
Settle(n, promises, how, value, q) ==
    LET base == NotifyCount(n) IN
    [i \in 1..Len(n) |->
        LET at == {x \in 1..Len(promises) : promises[x] = i} IN
        IF at # {}
        THEN n[i] \o [j \in 1..Cardinality(at) |->
                        [how |-> how, value |-> value, q |-> q,
                         seq |-> base
                                 + (CHOOSE x \in at : Cardinality({y \in at : y < x}) = j - 1)]]
        ELSE n[i]]


(***************************************************************************)
(* The batch loaders of users and streams (_loadUsers, _loadStreams).      *)
(***************************************************************************)
\* the catch block's loop over one key list: get, delete, pair[1](err).
\* A key the Map no longer holds makes `for(const pair of undefined)` throw
\* a TypeError, which ends the loader at that point.
RECURSIVE RejectLoop(_, _, _, _, _)
RejectLoop(m, n, keys, err, q) ==
    IF keys = <<>>
    THEN [map |-> m, notified |-> n, thrown |-> FALSE]
    ELSE LET k == Head(keys) IN
         IF ~MapHas(m, k)
         THEN [map |-> m, notified |-> n, thrown |-> TRUE]
         ELSE RejectLoop(MapDelete(m, k),
                         Settle(n, MapGet(m, k), "reject", [err |-> err], q),
                         Tail(keys), err, q)

\* const ids = keys().slice(0, 50)
SelectIds(wi) == Slice(MapKeys(wi), BatchSize)

\* SelectLogins with the logins sliced to a full batch, whatever the ids took
SelectLogins_FullSlice(ids, wl) == Slice(MapKeys(wl), BatchSize)

\* remaining = 50 - ids.length; logins = remaining > 0 ? keys().slice(0, remaining) : []
SelectLogins(ids, wl) ==
    LET remaining == BatchSize - Len(ids) IN
    IF remaining > 0 THEN Slice(MapKeys(wl), remaining) ELSE <<>>

\* LoadBegin without the guard on the flag
LoadBegin_NoGuard(loading, wi, wl, calls) ==
    LET ids == SelectIds(wi) IN
    [loading |-> TRUE,
     calls |-> Append(calls, [pc |-> "import", ids |-> ids,
                              logins |-> SelectLogins(ids, wl)])]

\* the loader up to its first await: the guard, the flag and the snapshot
LoadBegin(loading, wi, wl, calls) ==
    IF loading
    THEN [loading |-> loading, calls |-> calls]
    ELSE LET ids == SelectIds(wi) IN
         [loading |-> TRUE,
          calls |-> Append(calls, [pc |-> "import", ids |-> ids,
                                   logins |-> SelectLogins(ids, wl)])]

\* what a waiter is resolved with: the node (users), node.stream (streams)
ValueOf(kind, node) ==
    IF kind = "users" THEN node
    ELSE IF node.stream = NIL THEN Null ELSE [stream |-> node.stream, of |-> node.id]

\* get(k); if ( promises ) { delete(k); pair[0](value) }
ResolveKey(st, field, k, value, q) ==
    IF k # NIL /\ MapHas(st[field], k)
    THEN [st EXCEPT ![field] = MapDelete(st[field], k),
                    !.notified = Settle(st.notified, MapGet(st[field], k), "fulfill", value, q)]
    ELSE st

\* NodesLoop without the lookup by node.login
RECURSIVE NodesLoop_NoLogin(_, _, _, _)
NodesLoop_NoLogin(st, nodes, kind, q) ==
    IF nodes = <<>> THEN st
    ELSE LET node == Head(nodes) IN
         IF node.id = NIL
         THEN NodesLoop_NoLogin(st, Tail(nodes), kind, q)
         ELSE LET s0 == [st EXCEPT !.id_set = @ \ {node.id},
                                   !.login_set = @ \ {node.login}]
                  s1 == ResolveKey(s0, "wi", node.id, ValueOf(kind, node), q)
              IN NodesLoop_NoLogin(s1, Tail(nodes), kind, q)

\* for(const node of nodes): skip falsy nodes, resolve by node.id, then by node.login
RECURSIVE NodesLoop(_, _, _, _)
NodesLoop(st, nodes, kind, q) ==
    IF nodes = <<>> THEN st
    ELSE LET node == Head(nodes) IN
         IF node.id = NIL
         THEN NodesLoop(st, Tail(nodes), kind, q)
         ELSE LET s0 == [st EXCEPT !.id_set = @ \ {node.id},
                                   !.login_set = @ \ {node.login}]
                  s1 == ResolveKey(s0, "wi", node.id, ValueOf(kind, node), q)
                  s2 == ResolveKey(s1, "wl", node.login, ValueOf(kind, node), q)
              IN NodesLoop(s2, Tail(nodes), kind, q)

\* for(const id of id_set): resolve what is left with null
RECURSIVE NullLoop(_, _, _, _)
NullLoop(st, field, keys, q) ==
    IF keys = <<>> THEN st
    ELSE NullLoop(ResolveKey(st, field, Head(keys), Null, q), field, Tail(keys), q)

\* the loader after a successful await, up to the flag reset
LoadSuccess(wi, wl, n, call, resp, kind, q) ==
    LET st0 == [wi |-> wi, wl |-> wl, notified |-> n,
                id_set |-> Range(call.ids), login_set |-> Range(call.logins)]
        st1 == IF resp.isArray THEN NodesLoop(st0, resp.items, kind, q) ELSE st0
        st2 == NullLoop(st1, "wi", SelectSeq(call.ids, LAMBDA k : k \in st1.id_set), q)
    IN  NullLoop(st2, "wl", SelectSeq(call.logins, LAMBDA k : k \in st2.login_set), q)

\* the loader's catch block
LoadFail(wi, wl, n, call, err, q) ==
    LET r1 == RejectLoop(wi, n, call.ids, err, q)
        r2 == IF r1.thrown
              THEN [map |-> wl, notified |-> r1.notified, thrown |-> TRUE]
              ELSE RejectLoop(wl, r1.notified, call.logins, err, q)
    IN  [wi |-> r1.map, wl |-> r2.map, notified |-> r2.notified, thrown |-> r2.thrown]

(***************************************************************************)
(* Users.                                                                  *)
(***************************************************************************)
NewCaller(op, kind, space, key, want, cb) ==
    [op |-> op, kind |-> kind, space |-> space, key |-> key,
     want |-> want, cb |-> cb, out |-> Null,
     q |-> Len(issued[kind]),
     running |-> inflight[kind] # <<>>,
     loading |-> (CASE kind = "users" -> _loading_users
                    [] kind = "streams" -> _loading_streams
                    [] OTHER -> _loading_tags),
     burst |-> IF op # "getUserBasic" THEN 0
               ELSE IF burst # 0 THEN burst
               ELSE IF ~_loading_users THEN Len(callers) + 1 ELSE 0]

\* The three kinds share no field, so a behaviour is the interleaving of
\* three independent ones; the calls of one behaviour all go to one kind.
OnlyKind(k) ==
    /\ \A i \in 1..Len(callers) : callers[i].kind = k
    /\ k # "tags" => fetches = 0

InvalidKey == [err |-> "id and login cannot both be null"]

\* getUserBasic(id, login): register, or reject; then start a cycle if none runs
GetUserBasic(id, login) ==
    /\ Len(callers) < MaxCallers
    /\ OnlyKind("users")
    /\ LET me == Len(callers) + 1
           space == IF id # NIL THEN "user_ids" ELSE IF login # NIL THEN "user_logins" ELSE "none"
           c == NewCaller("getUserBasic", "users", space, IF id # NIL THEN id ELSE login, FALSE, FALSE)
           wi == IF id # NIL THEN MapPush(_waiting_user_ids, id, me) ELSE _waiting_user_ids
           wl == IF id = NIL /\ login # NIL
                 THEN MapPush(_waiting_user_logins, login, me) ELSE _waiting_user_logins
           b == LoadBegin(_loading_users, wi, wl, inflight.users)
       IN /\ callers' = Append(callers, c)
          /\ notified' = Append(notified,
                IF space = "none"
                THEN <<[how |-> "reject", value |-> InvalidKey, q |-> Len(issued.users),
                       seq |-> NotifyCount(notified) + 1]>>
                ELSE <<>>)
          /\ _waiting_user_ids' = wi
          /\ _waiting_user_logins' = wl
          /\ _loading_users' = b.loading
          /\ inflight' = [inflight EXCEPT !.users = b.calls]
          /\ burst' = c.burst
    /\ UNCHANGED <<fetches, fault>>
    /\ UNCHANGED <<streamVars, tagVars, debounced, issued>>
    /\ UNCHANGED requests

\* the dynamic import resolved: queryApollo sends the query
UsersQuery ==
    /\ inflight.users # <<>>
    /\ inflight.users[1].pc = "import"
    /\ inflight' = [inflight EXCEPT !.users[1].pc = "query"]
    /\ issued' = [issued EXCEPT !.users = Append(@, [ids |-> inflight.users[1].ids,
                                                   logins |-> inflight.users[1].logins])]
    /\ burst' = 0
    /\ UNCHANGED <<fetches, fault>>
    /\ UNCHANGED <<userVars, streamVars, tagVars, debounced, callers, notified>>
    /\ UNCHANGED requests

\* the query returned: fan out, reset the flag, start again if keys remain
UsersSuccess(resp) ==
    /\ inflight.users # <<>>
    /\ inflight.users[1].pc = "query"
    /\ LET r == LoadSuccess(_waiting_user_ids, _waiting_user_logins, notified,
                            inflight.users[1], resp, "users", Len(issued.users))
           b == IF Len(r.wi) > 0 \/ Len(r.wl) > 0
                THEN LoadBegin(FALSE, r.wi, r.wl, Tail(inflight.users))
                ELSE [loading |-> FALSE, calls |-> Tail(inflight.users)]
       IN /\ _waiting_user_ids' = r.wi
          /\ _waiting_user_logins' = r.wl
          /\ notified' = r.notified
          /\ _loading_users' = b.loading
          /\ inflight' = [inflight EXCEPT !.users = b.calls]
    /\ burst' = 0
    /\ UNCHANGED <<fetches, fault>>
    /\ UNCHANGED <<streamVars, tagVars, debounced, issued, callers>>
    /\ UNCHANGED requests

\* the query threw: the catch block, then return
UsersFail(err) ==
    /\ inflight.users # <<>>
    /\ inflight.users[1].pc = "query"
    /\ LET r == LoadFail(_waiting_user_ids, _waiting_user_logins, notified,
                         inflight.users[1], err, Len(issued.users))
       IN /\ _waiting_user_ids' = r.wi
          /\ _waiting_user_logins' = r.wl
          /\ notified' = r.notified
          /\ fault' = (fault \/ r.thrown)
    /\ inflight' = [inflight EXCEPT !.users = Tail(@)]
    /\ burst' = 0
    /\ UNCHANGED fetches
    /\ UNCHANGED <<_loading_users, streamVars, tagVars, debounced, issued, callers>>
    /\ UNCHANGED requests

(***************************************************************************)
(* Streams: the same loader behind debounce(_loadStreams, 50).             *)
(***************************************************************************)
\* debounce(fn, 50): a call arms (or re-arms) the timer; fn runs when it fires
Debounce(d, k) == [d EXCEPT ![k] = TRUE]

GetStreamMeta(id, login) ==
    /\ Len(callers) < MaxCallers
    /\ OnlyKind("streams")
    /\ LET me == Len(callers) + 1
           space == IF id # NIL THEN "stream_ids" ELSE IF login # NIL THEN "stream_logins" ELSE "none"
           c == NewCaller("getStreamMeta", "streams", space, IF id # NIL THEN id ELSE login, FALSE, FALSE)
       IN /\ callers' = Append(callers, c)
          /\ notified' = Append(notified,
                IF space = "none"
                THEN <<[how |-> "reject", value |-> InvalidKey, q |-> Len(issued.streams),
                       seq |-> NotifyCount(notified) + 1]>>
                ELSE <<>>)
          /\ _waiting_stream_ids' =
                IF id # NIL THEN MapPush(_waiting_stream_ids, id, me) ELSE _waiting_stream_ids
          /\ _waiting_stream_logins' =
                IF id = NIL /\ login # NIL
                THEN MapPush(_waiting_stream_logins, login, me) ELSE _waiting_stream_logins
    /\ debounced' = IF ~_loading_streams THEN Debounce(debounced, "streams") ELSE debounced
    /\ burst' = 0
    /\ UNCHANGED <<fetches, fault>>
    /\ UNCHANGED <<_loading_streams, userVars, tagVars, inflight, issued>>
    /\ UNCHANGED requests

\* the debounce timer fired: _loadStreams runs up to its first await
StreamsTimer ==
    /\ debounced.streams
    /\ debounced' = [debounced EXCEPT !.streams = FALSE]
    /\ LET b == LoadBegin(_loading_streams, _waiting_stream_ids,
                          _waiting_stream_logins, inflight.streams)
       IN /\ _loading_streams' = b.loading
          /\ inflight' = [inflight EXCEPT !.streams = b.calls]
    /\ burst' = 0
    /\ UNCHANGED <<fetches, fault>>
    /\ UNCHANGED <<_waiting_stream_ids, _waiting_stream_logins, userVars, tagVars,
                   issued, callers, notified>>
    /\ UNCHANGED requests

StreamsQuery ==
    /\ inflight.streams # <<>>
    /\ inflight.streams[1].pc = "import"
    /\ inflight' = [inflight EXCEPT !.streams[1].pc = "query"]
    /\ issued' = [issued EXCEPT !.streams = Append(@, [ids |-> inflight.streams[1].ids,
                                                   logins |-> inflight.streams[1].logins])]
    /\ burst' = 0
    /\ UNCHANGED <<fetches, fault>>
    /\ UNCHANGED <<userVars, streamVars, tagVars, debounced, callers, notified>>
    /\ UNCHANGED requests

StreamsSuccess(resp) ==
    /\ inflight.streams # <<>>
    /\ inflight.streams[1].pc = "query"
    /\ LET r == LoadSuccess(_waiting_stream_ids, _waiting_stream_logins, notified,
                            inflight.streams[1], resp, "streams", Len(issued.streams))
       IN /\ _waiting_stream_ids' = r.wi
          /\ _waiting_stream_logins' = r.wl
          /\ notified' = r.notified
          /\ debounced' = IF Len(r.wi) > 0 \/ Len(r.wl) > 0
                          THEN Debounce(debounced, "streams") ELSE debounced
    /\ _loading_streams' = FALSE
    /\ inflight' = [inflight EXCEPT !.streams = Tail(@)]
    /\ burst' = 0
    /\ UNCHANGED <<fetches, fault>>
    /\ UNCHANGED <<userVars, tagVars, issued, callers>>
    /\ UNCHANGED requests

StreamsFail(err) ==
    /\ inflight.streams # <<>>
    /\ inflight.streams[1].pc = "query"
    /\ LET r == LoadFail(_waiting_stream_ids, _waiting_stream_logins, notified,
                         inflight.streams[1], err, Len(issued.streams))
       IN /\ _waiting_stream_ids' = r.wi
          /\ _waiting_stream_logins' = r.wl
          /\ notified' = r.notified
          /\ fault' = (fault \/ r.thrown)
    /\ inflight' = [inflight EXCEPT !.streams = Tail(@)]
    /\ burst' = 0
    /\ UNCHANGED fetches
    /\ UNCHANGED <<_loading_streams, userVars, tagVars, debounced, issued, callers>>
    /\ UNCHANGED requests


(***************************************************************************)
(* Tags: the cache, memorizeTag and the loader behind                      *)
(* debounce(_loadTags, 50).  A cached record keeps the fields the claims   *)
(* read; is_auto and scope are plain copies of the node's and are left     *)
(* out.                                                                    *)
(***************************************************************************)
\* LANGUAGE_MATCHER.exec(tagName): match[1], or NIL without a match
LanguageMatch(name) == IF name = "auto___lang_en" THEN "en" ELSE NIL

CacheHas(cache, id) == id \in DOMAIN cache

\* CacheSet into a fresh Map: the other entries are lost
CacheSet_Fresh(cache, id, tag) == [t \in {id} |-> tag]

CacheSet(cache, id, tag) == [t \in DOMAIN cache \cup {id} |-> IF t = id THEN tag ELSE cache[t]]

\* memorizeTag with the description assigned whether or not the node has one
MemorizeTag_Overwrite(cache, wt, n, node, dispatch, q) ==
    IF node.id = NIL \/ node.tagName = NIL \/ node.localizedName = NIL
    THEN [ok |-> FALSE, cache |-> cache, wt |-> wt, notified |-> n]
    ELSE LET old == IF CacheHas(cache, node.id)
                    THEN cache[node.id]
                    ELSE [id |-> node.id, value |-> node.id,
                          is_language |-> node.isLanguageTag,
                          language |-> IF node.isLanguageTag
                                       THEN LanguageMatch(node.tagName) ELSE NIL,
                          name |-> node.tagName,
                          label |-> NIL, description |-> NIL]
             t1 == IF node.localizedName # NIL
                   THEN [old EXCEPT !.label = node.localizedName] ELSE old
             tag == [t1 EXCEPT !.description = node.localizedDescription]
             hit == dispatch /\ tag.description # NIL /\ MapHas(wt, tag.id)
         IN [ok |-> TRUE, tag |-> tag,
             cache |-> CacheSet(cache, node.id, tag),
             wt |-> IF hit THEN MapDelete(wt, tag.id) ELSE wt,
             notified |-> IF hit THEN Settle(n, MapGet(wt, tag.id), "fulfill", tag, q) ELSE n]

\* memorizeTag with the dispatch leaving the waiters in _waiting_tags
MemorizeTag_KeepWaiters(cache, wt, n, node, dispatch, q) ==
    IF node.id = NIL \/ node.tagName = NIL \/ node.localizedName = NIL
    THEN [ok |-> FALSE, cache |-> cache, wt |-> wt, notified |-> n]
    ELSE LET old == IF CacheHas(cache, node.id)
                    THEN cache[node.id]
                    ELSE [id |-> node.id, value |-> node.id,
                          is_language |-> node.isLanguageTag,
                          language |-> IF node.isLanguageTag
                                       THEN LanguageMatch(node.tagName) ELSE NIL,
                          name |-> node.tagName,
                          label |-> NIL, description |-> NIL]
             t1 == IF node.localizedName # NIL
                   THEN [old EXCEPT !.label = node.localizedName] ELSE old
             tag == IF node.localizedDescription # NIL
                    THEN [t1 EXCEPT !.description = node.localizedDescription] ELSE t1
             hit == dispatch /\ tag.description # NIL /\ MapHas(wt, tag.id)
         IN [ok |-> TRUE, tag |-> tag,
             cache |-> CacheSet(cache, node.id, tag),
             wt |-> wt,
             notified |-> IF hit THEN Settle(n, MapGet(wt, tag.id), "fulfill", tag, q) ELSE n]

\* memorizeTag with the well-formedness test reduced to the id
MemorizeTag_IdOnly(cache, wt, n, node, dispatch, q) ==
    IF node.id = NIL
    THEN [ok |-> FALSE, cache |-> cache, wt |-> wt, notified |-> n]
    ELSE LET old == IF CacheHas(cache, node.id)
                    THEN cache[node.id]
                    ELSE [id |-> node.id, value |-> node.id,
                          is_language |-> node.isLanguageTag,
                          language |-> IF node.isLanguageTag
                                       THEN LanguageMatch(node.tagName) ELSE NIL,
                          name |-> node.tagName,
                          label |-> NIL, description |-> NIL]
             t1 == IF node.localizedName # NIL
                   THEN [old EXCEPT !.label = node.localizedName] ELSE old
             tag == IF node.localizedDescription # NIL
                    THEN [t1 EXCEPT !.description = node.localizedDescription] ELSE t1
             hit == dispatch /\ tag.description # NIL /\ MapHas(wt, tag.id)
         IN [ok |-> TRUE, tag |-> tag,
             cache |-> CacheSet(cache, node.id, tag),
             wt |-> IF hit THEN MapDelete(wt, tag.id) ELSE wt,
             notified |-> IF hit THEN Settle(n, MapGet(wt, tag.id), "fulfill", tag, q) ELSE n]

\* memorizeTag with the dispatch made whether or not the record has a description
MemorizeTag_NoDescriptionTest(cache, wt, n, node, dispatch, q) ==
    IF node.id = NIL \/ node.tagName = NIL \/ node.localizedName = NIL
    THEN [ok |-> FALSE, cache |-> cache, wt |-> wt, notified |-> n]
    ELSE LET old == IF CacheHas(cache, node.id)
                    THEN cache[node.id]
                    ELSE [id |-> node.id, value |-> node.id,
                          is_language |-> node.isLanguageTag,
                          language |-> IF node.isLanguageTag
                                       THEN LanguageMatch(node.tagName) ELSE NIL,
                          name |-> node.tagName,
                          label |-> NIL, description |-> NIL]
             t1 == IF node.localizedName # NIL
                   THEN [old EXCEPT !.label = node.localizedName] ELSE old
             tag == IF node.localizedDescription # NIL
                    THEN [t1 EXCEPT !.description = node.localizedDescription] ELSE t1
             hit == dispatch /\ MapHas(wt, tag.id)
         IN [ok |-> TRUE, tag |-> tag,
             cache |-> CacheSet(cache, node.id, tag),
             wt |-> IF hit THEN MapDelete(wt, tag.id) ELSE wt,
             notified |-> IF hit THEN Settle(n, MapGet(wt, tag.id), "fulfill", tag, q) ELSE n]

\* memorizeTag(node, dispatch): [ok |-> FALSE] stands for the undefined it
\* returns on a malformed node
MemorizeTag(cache, wt, n, node, dispatch, q) ==
    IF node.id = NIL \/ node.tagName = NIL \/ node.localizedName = NIL
    THEN [ok |-> FALSE, cache |-> cache, wt |-> wt, notified |-> n]
    ELSE LET old == IF CacheHas(cache, node.id)
                    THEN cache[node.id]
                    ELSE [id |-> node.id, value |-> node.id,
                          is_language |-> node.isLanguageTag,
                          language |-> IF node.isLanguageTag
                                       THEN LanguageMatch(node.tagName) ELSE NIL,
                          name |-> node.tagName,
                          label |-> NIL, description |-> NIL]
             t1 == IF node.localizedName # NIL
                   THEN [old EXCEPT !.label = node.localizedName] ELSE old
             tag == IF node.localizedDescription # NIL
                    THEN [t1 EXCEPT !.description = node.localizedDescription] ELSE t1
             hit == dispatch /\ tag.description # NIL /\ MapHas(wt, tag.id)
         IN [ok |-> TRUE, tag |-> tag,
             cache |-> CacheSet(cache, node.id, tag),
             wt |-> IF hit THEN MapDelete(wt, tag.id) ELSE wt,
             notified |-> IF hit THEN Settle(n, MapGet(wt, tag.id), "fulfill", tag, q) ELSE n]

\* _loadTags, the loop over the response: memorizeTag(node, false), then
\* get, delete and resolve by tag.id.  memorizeTag's undefined makes tag.id
\* throw a TypeError.
RECURSIVE TagNodesLoop(_, _, _)
TagNodesLoop(st, nodes, q) ==
    IF nodes = <<>> THEN st
    ELSE LET m == MemorizeTag(st.cache, st.wt, st.notified, Head(nodes), FALSE, q) IN
         IF ~m.ok
         THEN [st EXCEPT !.thrown = TRUE]
         ELSE LET had == MapHas(st.wt, m.tag.id) IN
              TagNodesLoop(
                [st EXCEPT !.cache = m.cache,
                           !.wt = MapDelete(st.wt, m.tag.id),
                           !.id_set = @ \ {m.tag.id},
                           !.notified = IF had
                                        THEN Settle(st.notified, MapGet(st.wt, m.tag.id),
                                                    "fulfill", m.tag, q)
                                        ELSE st.notified],
                Tail(nodes), q)

\* _loadTags, the loop over what is left of id_set: get, delete, pair[0](null);
\* a key the Map no longer holds makes the for-of throw a TypeError
RECURSIVE TagNullLoop(_, _, _)
TagNullLoop(st, keys, q) ==
    IF keys = <<>> \/ st.thrown THEN st
    ELSE LET k == Head(keys) IN
         IF ~MapHas(st.wt, k)
         THEN [st EXCEPT !.thrown = TRUE]
         ELSE TagNullLoop(
                [st EXCEPT !.wt = MapDelete(st.wt, k),
                           !.notified = Settle(st.notified, MapGet(st.wt, k),
                                               "fulfill", Null, q)],
                Tail(keys), q)

\* _loadTags after a successful await, up to the flag reset
LoadTagsSuccess(cache, wt, n, call, resp, q) ==
    LET st0 == [cache |-> cache, wt |-> wt, notified |-> n,
                id_set |-> Range(call.ids), thrown |-> FALSE]
        st1 == IF resp.isArray THEN TagNodesLoop(st0, resp.items, q) ELSE st0
    IN  TagNullLoop(st1, SelectSeq(call.ids, LAMBDA k : k \in st1.id_set), q)

\* _loadTags up to its first await
LoadTagsBegin(loading, wt, calls) ==
    IF loading
    THEN [loading |-> loading, calls |-> calls]
    ELSE [loading |-> TRUE,
          calls |-> Append(calls, [pc |-> "import", ids |-> SelectIds(wt), logins |-> <<>>])]

\* getTag's promise executor: push, or set and start a cycle if none runs
RegisterTag(wt, d, loading, id, me) ==
    [wt |-> MapPush(wt, id, me),
     debounced |-> IF ~MapHas(wt, id) /\ ~loading THEN Debounce(d, "tags") ELSE d]

\* getTag(id, want_description)
GetTag(id, want) ==
    /\ Len(callers) < MaxTagCallers
    /\ OnlyKind("tags")
    /\ LET me == Len(callers) + 1
           hit == CacheHas(tag_cache, id) /\ (tag_cache[id].description # NIL \/ ~want)
           c == [NewCaller("getTag", "tags", IF hit THEN "cache" ELSE "tags", id, want, FALSE)
                    EXCEPT !.out = IF CacheHas(tag_cache, id) THEN tag_cache[id] ELSE Null]
           r == RegisterTag(_waiting_tags, debounced, _loading_tags, id, me)
       IN /\ callers' = Append(callers, c)
          /\ notified' = Append(notified,
                IF hit
                THEN <<[how |-> "fulfill", value |-> tag_cache[id], q |-> Len(issued.tags),
                       seq |-> NotifyCount(notified) + 1]>>
                ELSE <<>>)
          /\ _waiting_tags' = IF hit THEN _waiting_tags ELSE r.wt
          /\ debounced' = IF hit THEN debounced ELSE r.debounced
    /\ burst' = 0
    /\ UNCHANGED <<tag_cache, _loading_tags, userVars, streamVars, inflight, issued,
                   fetches, fault>>
    /\ UNCHANGED requests

\* getTagImmediate(id, callback, want_description); cb says a callback is given
GetTagImmediate(id, cb, want) ==
    /\ Len(callers) < MaxTagCallers
    /\ OnlyKind("tags")
    /\ LET me == Len(callers) + 1
           out == IF CacheHas(tag_cache, id) THEN tag_cache[id] ELSE Null
           ask == \/ want /\ (out = Null \/ out.description = NIL)
                  \/ out = Null /\ cb
           \* getTag(id, want_description) inside: its cache test
           hit == CacheHas(tag_cache, id) /\ (tag_cache[id].description # NIL \/ ~want)
           c == [NewCaller("getTagImmediate", "tags",
                           IF ~ask THEN "none" ELSE IF hit THEN "cache" ELSE "tags",
                           id, want, cb) EXCEPT !.out = out]
           r == RegisterTag(_waiting_tags, debounced, _loading_tags, id, me)
       IN /\ callers' = Append(callers, c)
          /\ notified' = Append(notified,
                IF ask /\ hit
                THEN <<[how |-> "fulfill", value |-> tag_cache[id], q |-> Len(issued.tags),
                       seq |-> NotifyCount(notified) + 1]>>
                ELSE <<>>)
          /\ _waiting_tags' = IF ask /\ ~hit THEN r.wt ELSE _waiting_tags
          /\ debounced' = IF ask /\ ~hit THEN r.debounced ELSE debounced
    /\ burst' = 0
    /\ UNCHANGED <<tag_cache, _loading_tags, userVars, streamVars, inflight, issued,
                   fetches, fault>>
    /\ UNCHANGED requests

\* the debounce timer fired: _loadTags runs up to its first await
TagsTimer ==
    /\ debounced.tags
    /\ debounced' = [debounced EXCEPT !.tags = FALSE]
    /\ LET b == LoadTagsBegin(_loading_tags, _waiting_tags, inflight.tags)
       IN /\ _loading_tags' = b.loading
          /\ inflight' = [inflight EXCEPT !.tags = b.calls]
    /\ burst' = 0
    /\ UNCHANGED <<tag_cache, _waiting_tags, userVars, streamVars, issued, callers,
                   notified, fetches, fault>>
    /\ UNCHANGED requests

TagsQuery ==
    /\ inflight.tags # <<>>
    /\ inflight.tags[1].pc = "import"
    /\ inflight' = [inflight EXCEPT !.tags[1].pc = "query"]
    /\ issued' = [issued EXCEPT !.tags = Append(@, [ids |-> inflight.tags[1].ids,
                                                   logins |-> inflight.tags[1].logins])]
    /\ burst' = 0
    /\ UNCHANGED <<userVars, streamVars, tagVars, debounced, callers, notified,
                   fetches, fault>>
    /\ UNCHANGED requests

\* the query returned: memorize and fan out, reset the flag, re-arm if keys remain
TagsSuccess(resp) ==
    /\ inflight.tags # <<>>
    /\ inflight.tags[1].pc = "query"
    /\ LET r == LoadTagsSuccess(tag_cache, _waiting_tags, notified,
                                inflight.tags[1], resp, Len(issued.tags))
       IN /\ tag_cache' = r.cache
          /\ _waiting_tags' = r.wt
          /\ notified' = r.notified
          /\ fault' = (fault \/ r.thrown)
          /\ _loading_tags' = IF r.thrown THEN _loading_tags ELSE FALSE
          /\ debounced' = IF ~r.thrown /\ Len(r.wt) > 0
                          THEN Debounce(debounced, "tags") ELSE debounced
    /\ inflight' = [inflight EXCEPT !.tags = Tail(@)]
    /\ burst' = 0
    /\ UNCHANGED <<userVars, streamVars, issued, callers, fetches>>
    /\ UNCHANGED requests

\* the query threw: the catch block, then return
TagsFail(err) ==
    /\ inflight.tags # <<>>
    /\ inflight.tags[1].pc = "query"
    /\ LET r == RejectLoop(_waiting_tags, notified, inflight.tags[1].ids, err, Len(issued.tags))
       IN /\ _waiting_tags' = r.map
          /\ notified' = r.notified
          /\ fault' = (fault \/ r.thrown)
    /\ inflight' = [inflight EXCEPT !.tags = Tail(@)]
    /\ burst' = 0
    /\ UNCHANGED <<tag_cache, _loading_tags, userVars, streamVars, debounced, issued,
                   callers, fetches>>
    /\ UNCHANGED requests

\* for(const node of nodes) memorizeTag(node), over the nodes a fetch keeps
RECURSIVE MemorizeAll(_, _, _)
MemorizeAll(st, nodes, q) ==
    IF nodes = <<>> THEN st
    ELSE LET m == MemorizeTag(st.cache, st.wt, st.notified, Head(nodes), TRUE, q) IN
         MemorizeAll([cache |-> m.cache, wt |-> m.wt, notified |-> m.notified],
                     Tail(nodes), q)

\* getTopTags' filter: skip null nodes and ids already seen (a node without
\* id is kept by the source and then dropped by memorizeTag: the same effect)
RECURSIVE TopTagsKept(_, _)
TopTagsKept(nodes, seen) ==
    IF nodes = <<>> THEN <<>>
    ELSE LET node == Head(nodes) IN
         IF node.id = NIL \/ node.id \in seen
         THEN TopTagsKept(Tail(nodes), seen)
         ELSE <<node>> \o TopTagsKept(Tail(nodes), seen \cup {node.id})

\* the response of a getTopTags query arrived
GetTopTags(resp) ==
    /\ fetches < MaxFetches
    /\ OnlyKind("tags")
    /\ fetches' = fetches + 1
    /\ LET st0 == [cache |-> tag_cache, wt |-> _waiting_tags, notified |-> notified]
           r == IF resp.isArray
                THEN MemorizeAll(st0, TopTagsKept(resp.items, {}), Len(issued.tags))
                ELSE st0
       IN /\ tag_cache' = r.cache
          /\ _waiting_tags' = r.wt
          /\ notified' = r.notified
    /\ burst' = 0
    /\ UNCHANGED <<_loading_tags, userVars, streamVars, debounced, inflight, issued,
                   callers, fault>>
    /\ UNCHANGED requests

\* the response of a getMatchingTags query arrived
GetMatchingTags(resp) ==
    /\ fetches < MaxFetches
    /\ OnlyKind("tags")
    /\ fetches' = fetches + 1
    /\ LET st0 == [cache |-> tag_cache, wt |-> _waiting_tags, notified |-> notified]
           r == IF resp.isArray /\ Len(resp.items) > 0
                THEN MemorizeAll(st0, resp.items, Len(issued.tags))
                ELSE st0
       IN /\ tag_cache' = r.cache
          /\ _waiting_tags' = r.wt
          /\ notified' = r.notified
    /\ burst' = 0
    /\ UNCHANGED <<_loading_tags, userVars, streamVars, debounced, inflight, issued,
                   callers, fault>>
    /\ UNCHANGED requests

(***************************************************************************)
(* The unbatched operations: one remote call each, no state of the         *)
(* instance read or written.  requests logs each call and how it ended.    *)
(***************************************************************************)
batchVars == <<userVars, streamVars, tagVars, debounced, inflight, issued,
               callers, notified, burst, fetches, fault>>

ChannelIds == {"1", "2"}
\* the codes an application error of a mutation can carry
ErrorCodes == {"FORBIDDEN", "TOO_MANY_FOLLOWS"}

\* data of a mutation, as far as the code reads it: data.<op>.error (null
\* or an object with a code) and data.<op>.follow
MutationResponses ==
    {[error |-> e, follow |-> f] :
        e \in {Null} \cup {[code |-> c] : c \in ErrorCodes},
        f \in {Null, [followedAt |-> "now"]}}

NewRequest(op, arg) ==
    [op |-> op, arg |-> arg, pc |-> "await", resp |-> Null, how |-> "pending",
     value |-> Null]

\* the async function of request i ended: it returned value, or threw it
Finish(i, resp, how, value) ==
    [requests EXCEPT ![i] = [@ EXCEPT !.pc = "done", !.resp = resp,
                                      !.how = how, !.value = value]]

Awaiting(i, op) ==
    /\ i \in 1..Len(requests)
    /\ requests[i].op = op
    /\ requests[i].pc = "await"

\* followUser(channel_id) up to its await of this.mutate
FollowUser(channel_id) ==
    /\ Len(requests) < MaxRequests
    /\ requests' = Append(requests, NewRequest("followUser", channel_id))
    /\ UNCHANGED batchVars

\* the mutation returned: throw new Error(err.code) if err?.code, else return follow
FollowUserReturns(i, data) ==
    /\ Awaiting(i, "followUser")
    /\ LET err == data.error IN
       requests' = IF err # Null /\ err.code # NIL
                   THEN Finish(i, data, "throw", [error |-> err.code])
                   ELSE Finish(i, data, "return", data.follow)
    /\ UNCHANGED batchVars

\* unfollowUser(channel_id) up to its await of this.mutate
UnfollowUser(channel_id) ==
    /\ Len(requests) < MaxRequests
    /\ requests' = Append(requests, NewRequest("unfollowUser", channel_id))
    /\ UNCHANGED batchVars

\* the mutation returned: return get('data.unfollowUser.follow', data)
UnfollowUserReturns(i, data) ==
    /\ Awaiting(i, "unfollowUser")
    /\ requests' = Finish(i, data, "return", data.follow)
    /\ UNCHANGED batchVars

\* String.prototype.toLowerCase on the strings of the model
toLowerCase(str) ==
    CASE str = "Foo" -> "foo"
      [] str = "Bar" -> "bar"
      [] OTHER -> str

Queries == {"Foo", "bar"}

\* a node of a search response: its primary name (name of a category, login
\* of a user) and its displayName
SearchItem(field, n, d) == [f \in {field, "displayName"} |-> IF f = field THEN n ELSE d]

\* the nodes a search can return, null among them
SearchItems(field) ==
    {SearchItem(field, n, d) : n \in {"foo", "bar"}, d \in {"Foo", "Bar"}} \cup {Null}

\* get('data.search*.edges.@each.node', data) ?? []
SearchResponses(field) == SeqsUpTo(SearchItems(field), MaxItems)

CategoryResponses == SearchResponses("name")
UserSearchResponses == SearchResponses("login")

\* a && (a.name?.toLowerCase?.() === needle || a?.displayName?.toLowerCase?.() === needle)
a_match(a, field, needle) ==
    /\ a # Null
    /\ \/ toLowerCase(a[field]) = needle
       \/ toLowerCase(a.displayName) = needle

\* a && (b.name?.toLowerCase?.() === needle || b?.displayName?.toLowerCase?.() === needle):
\* guarded by a, not by b
b_match(a, b, field, needle) ==
    /\ a # Null
    /\ \/ toLowerCase(b[field]) = needle
       \/ toLowerCase(b.displayName) = needle

\* the comparator given to items.sort.  With a falsy a both tests are falsy
\* and it returns 0; with a truthy a and a null b, b.name throws a TypeError.
Comparator(a, b, field, needle) ==
    IF a = Null THEN [thrown |-> FALSE, order |-> 0]
    ELSE IF b = Null THEN [thrown |-> TRUE, order |-> 0]
    ELSE [thrown |-> FALSE,
          order |-> IF a_match(a, field, needle) /\ ~b_match(a, b, field, needle) THEN -1
                    ELSE IF ~a_match(a, field, needle) /\ b_match(a, b, field, needle) THEN 1
                    ELSE 0]

\* Array.prototype.sort is the engine's: a stable sort, here by insertion.
\* Which element the engine passes first to the comparator is its own
\* choice, so both orders are outcomes.
Engines == {"pivot_first", "pivot_second"}

\* insert pivot into the sorted list, walking down from position j
RECURSIVE Insert(_, _, _, _, _, _)
Insert(sorted, pivot, j, field, needle, engine) ==
    IF j = 0
    THEN [thrown |-> FALSE, items |-> <<pivot>> \o sorted]
    ELSE LET c == IF engine = "pivot_first"
                  THEN Comparator(pivot, sorted[j], field, needle)
                  ELSE Comparator(sorted[j], pivot, field, needle)
             before == IF engine = "pivot_first" THEN c.order < 0 ELSE c.order > 0
         IN  IF c.thrown THEN [thrown |-> TRUE, items |-> sorted]
             ELSE IF before THEN Insert(sorted, pivot, j - 1, field, needle, engine)
             ELSE [thrown |-> FALSE,
                   items |-> SubSeq(sorted, 1, j) \o <<pivot>>
                             \o SubSeq(sorted, j + 1, Len(sorted))]

\* items.sort(comparator)
RECURSIVE Sort(_, _, _, _, _)
Sort(sorted, rest, field, needle, engine) ==
    IF rest = <<>> THEN [thrown |-> FALSE, items |-> sorted]
    ELSE LET r == Insert(sorted, Head(rest), Len(sorted), field, needle, engine) IN
         IF r.thrown THEN r
         ELSE Sort(r.items, Tail(rest), field, needle, engine)

\* the search after its await: needle, sort, return {items, ...}
SearchReturns(i, items, field, engine) ==
    LET needle == toLowerCase(requests[i].arg)
        r == Sort(<<>>, items, field, needle, engine)
    IN  IF r.thrown
        THEN Finish(i, [items |-> items], "throw", [error |-> "TypeError"])
        ELSE Finish(i, [items |-> items], "return", [items |-> r.items])

\* getMatchingCategories(query) up to its await of this.queryApollo
GetMatchingCategories(query) ==
    /\ Len(requests) < MaxRequests
    /\ requests' = Append(requests, NewRequest("getMatchingCategories", query))
    /\ UNCHANGED batchVars

GetMatchingCategoriesReturns(i, items, engine) ==
    /\ Awaiting(i, "getMatchingCategories")
    /\ requests' = SearchReturns(i, items, "name", engine)
    /\ UNCHANGED batchVars

\* getMatchingUsers(query) up to its await of this.queryApollo
GetMatchingUsers(query) ==
    /\ Len(requests) < MaxRequests
    /\ requests' = Append(requests, NewRequest("getMatchingUsers", query))
    /\ UNCHANGED batchVars

GetMatchingUsersReturns(i, items, engine) ==
    /\ Awaiting(i, "getMatchingUsers")
    /\ requests' = SearchReturns(i, items, "login", engine)
    /\ UNCHANGED batchVars

\* the remote call of request i threw: none of the four catches, the await
\* rethrows the error to the caller
RequestThrows(i, err) ==
    /\ i \in 1..Len(requests)
    /\ requests[i].pc = "await"
    /\ requests' = Finish(i, [err |-> err], "throw", [err |-> err])
    /\ UNCHANGED batchVars

(***************************************************************************)
(* The specification.                                                      *)
(***************************************************************************)
Next ==
    \/ \E id \in UserIds \cup {NIL}, login \in UserLogins \cup {NIL} :
          (id = NIL \/ login = NIL) /\ GetUserBasic(id, login)
    \/ UsersQuery
    \/ \E resp \in UserResponses : UsersSuccess(resp)
    \/ \E err \in Errors : UsersFail(err)
    \/ \E id \in StreamIds \cup {NIL}, login \in StreamLogins \cup {NIL} :
          (id = NIL \/ login = NIL) /\ GetStreamMeta(id, login)
    \/ StreamsTimer
    \/ StreamsQuery
    \/ \E resp \in StreamResponses : StreamsSuccess(resp)
    \/ \E err \in Errors : StreamsFail(err)
    \/ \E id \in TagIds, want \in BOOLEAN : GetTag(id, want)
    \* getTagImmediate's callers pass no want_description: it is false
    \/ \E id \in TagIds, cb \in BOOLEAN : GetTagImmediate(id, cb, FALSE)
    \/ TagsTimer
    \/ TagsQuery
    \/ \E resp \in TagResponses : TagsSuccess(resp)
    \/ \E err \in Errors : TagsFail(err)
    \/ \E resp \in TagResponses : GetTopTags(resp)
    \/ \E resp \in TagResponses : GetMatchingTags(resp)

Spec == Init /\ [][Next]_vars

\* the unbatched operations on their own
NextRequests ==
    \/ \E channel_id \in ChannelIds : FollowUser(channel_id)
    \/ \E i \in 1..MaxRequests, data \in MutationResponses : FollowUserReturns(i, data)
    \/ \E channel_id \in ChannelIds : UnfollowUser(channel_id)
    \/ \E i \in 1..MaxRequests, data \in MutationResponses : UnfollowUserReturns(i, data)
    \/ \E query \in Queries : GetMatchingCategories(query)
    \/ \E i \in 1..MaxRequests, items \in CategoryResponses, engine \in Engines :
          GetMatchingCategoriesReturns(i, items, engine)
    \/ \E query \in Queries : GetMatchingUsers(query)
    \/ \E i \in 1..MaxRequests, items \in UserSearchResponses, engine \in Engines :
          GetMatchingUsersReturns(i, items, engine)
    \/ \E i \in 1..MaxRequests, err \in Errors : RequestThrows(i, err)

SpecRequests == Init /\ [][NextRequests]_vars

(***************************************************************************)
(* Vocabulary of the properties.                                           *)
(***************************************************************************)
Calls == 1..Len(callers)

\* call i put a (fulfill, reject) pair into a registry
Registered(i) == callers[i].space \notin {"none", "cache"}

\* nothing is scheduled for kind k: no loader is suspended, no timer is armed
Quiescent(k) ==
    /\ inflight[k] = <<>>
    /\ k \in DOMAIN debounced => ~debounced[k]

Last(q) == q[Len(q)]

\* a step in which the loader of kind k passed its guard and took a snapshot
Started(k) ==
    /\ inflight'[k] # <<>>
    /\ Last(inflight'[k]).pc = "import"
    /\ inflight[k] = <<>> \/ Last(inflight[k]).pc # "import"

(***************************************************************************)
(* C1: every waiter registered by getUserBasic, getStreamMeta or getTag    *)
(* eventually receives a fulfill or a reject call.  In its finite form:    *)
(* whenever nothing is scheduled for a kind (all remote calls returned,    *)
(* all timers fired), every waiter registered for it has been notified.    *)
(***************************************************************************)
C1_EveryWaiterNotified ==
    \A i \in Calls :
        Registered(i) /\ Quiescent(callers[i].kind) => notified[i] # <<>>

(***************************************************************************)
(* C2: the getUserBasic calls of one burst (issued back-to-back, starting  *)
(* while no user cycle runs; at most 50 keys) are served by exactly one    *)
(* remote query, which carries every key of the burst, and each caller     *)
(* gets its own result.                                                    *)
(***************************************************************************)
BurstOf(b) ==
    {i \in Calls : callers[i].op = "getUserBasic" /\ callers[i].burst = b
                   /\ callers[i].space # "none"}

C2_OneUserQueryPerBurst ==
    \A b \in Calls :
        LET B == BurstOf(b)
            idKeys == {callers[i].key : i \in {x \in B : callers[x].space = "user_ids"}}
            loginKeys == {callers[i].key : i \in {x \in B : callers[x].space = "user_logins"}}
        IN  (B # {} /\ Cardinality(idKeys) + Cardinality(loginKeys) <= BatchSize) =>
                \* the first query sent after the burst carries all its keys
                /\ Len(issued.users) > callers[b].q =>
                      /\ idKeys \subseteq Range(issued.users[callers[b].q + 1].ids)
                      /\ loginKeys \subseteq Range(issued.users[callers[b].q + 1].logins)
                \* and it is the query that answers every caller of the burst
                /\ \A i \in B : notified[i] # <<>> =>
                      /\ Len(notified[i]) = 1
                      /\ notified[i][1].q = callers[b].q + 1

(***************************************************************************)
(* C3: when a user or stream query succeeds, every waiter on a selected    *)
(* key with a matching node in the response (node.id for id keys,          *)
(* node.login for login keys) is fulfilled with that node's entity, every  *)
(* waiter on a selected key without one is fulfilled with null, none is    *)
(* rejected, and every selected key leaves its registry.                   *)
(***************************************************************************)
C3_Matches(resp, field, k) ==
    IF resp.isArray
    THEN {j \in 1..Len(resp.items) : resp.items[j].id # NIL /\ resp.items[j][field] = k}
    ELSE {}

\* users are resolved with the node, streams with the node's stream
C3_Entity(kind, node) ==
    IF kind = "users" THEN node
    ELSE IF node.stream = NIL THEN Null ELSE [stream |-> node.stream, of |-> node.id]

C3_KeyOK(kind, m, mNext, field, k, resp, n, nNext) ==
    /\ ~MapHas(mNext, k)
    /\ MapHas(m, k) =>
          \A x \in 1..Len(MapGet(m, k)) :
              LET w == MapGet(m, k)[x] IN
              /\ Len(nNext[w]) = Len(n[w]) + 1
              /\ Last(nNext[w]).how = "fulfill"
              /\ IF C3_Matches(resp, field, k) = {}
                 THEN Last(nNext[w]).value = Null
                 ELSE \E j \in C3_Matches(resp, field, k) :
                         Last(nNext[w]).value = C3_Entity(kind, resp.items[j])

\* what the loader of a kind does with each response its query can get
C3_KindOK(kind, wi, wl, call) ==
    \A resp \in (IF kind = "users" THEN UserResponses ELSE StreamResponses) :
        LET r == LoadSuccess(wi, wl, notified, call, resp, kind, 0) IN
        /\ \A k \in Range(call.ids) :
              C3_KeyOK(kind, wi, r.wi, "id", k, resp, notified, r.notified)
        /\ \A k \in Range(call.logins) :
              C3_KeyOK(kind, wl, r.wl, "login", k, resp, notified, r.notified)

C3_SuccessFanOut ==
    /\ (inflight.users # <<>> /\ inflight.users[1].pc = "query") =>
          C3_KindOK("users", _waiting_user_ids, _waiting_user_logins, inflight.users[1])
    /\ (inflight.streams # <<>> /\ inflight.streams[1].pc = "query") =>
          C3_KindOK("streams", _waiting_stream_ids, _waiting_stream_logins,
                    inflight.streams[1])

\* one answer resolved a login key with its node and an id key with null
C3_Witness ==
    \E i, j \in Calls :
        /\ callers[i].space = "user_logins"
        /\ callers[j].space = "user_ids"
        /\ Len(notified[i]) = 1 /\ Len(notified[j]) = 1
        /\ notified[i][1].how = "fulfill" /\ notified[j][1].how = "fulfill"
        /\ notified[i][1].q = notified[j][1].q
        /\ notified[j][1].value = Null
        /\ notified[i][1].value # Null
        /\ notified[i][1].value.login = callers[i].key

(***************************************************************************)
(* C4: when the remote call of a cycle throws, every waiter of every       *)
(* selected key is rejected with that error, the selected keys leave the   *)
(* registries, and the waiter lists of unselected keys and the whole       *)
(* tag_cache stay as they were.                                            *)
(***************************************************************************)
C4_MapOK(m, mNext, keys, err, n, nNext) ==
    /\ \A k \in Range(keys) :
          /\ ~MapHas(mNext, k)
          /\ MapHas(m, k) =>
                \A x \in 1..Len(MapGet(m, k)) :
                    LET w == MapGet(m, k)[x] IN
                    /\ Len(nNext[w]) = Len(n[w]) + 1
                    /\ Last(nNext[w]).how = "reject"
                    /\ Last(nNext[w]).value = [err |-> err]
    /\ \A j \in 1..Len(m) :
          m[j].key \notin Range(keys) =>
              /\ MapHas(mNext, m[j].key)
              /\ MapGet(mNext, m[j].key) = m[j].waiters

C4_FailureRejectsSelected ==
    [][ \A err \in Errors :
          /\ UsersFail(err) =>
                /\ C4_MapOK(_waiting_user_ids, _waiting_user_ids',
                            inflight.users[1].ids, err, notified, notified')
                /\ C4_MapOK(_waiting_user_logins, _waiting_user_logins',
                            inflight.users[1].logins, err, notified, notified')
          /\ StreamsFail(err) =>
                /\ C4_MapOK(_waiting_stream_ids, _waiting_stream_ids',
                            inflight.streams[1].ids, err, notified, notified')
                /\ C4_MapOK(_waiting_stream_logins, _waiting_stream_logins',
                            inflight.streams[1].logins, err, notified, notified')
          /\ TagsFail(err) =>
                /\ C4_MapOK(_waiting_tags, _waiting_tags',
                            inflight.tags[1].ids, err, notified, notified')
                /\ tag_cache' = tag_cache
      ]_vars

(***************************************************************************)
(* C5: a cycle selects at most 50 keys in all; login keys only when fewer  *)
(* than 50 id keys are pending, and then at most 50 minus the selected     *)
(* ids; in each space the selected keys are the earliest inserted ones;    *)
(* the keys not selected stay in their registry.                           *)
(***************************************************************************)
IsPrefix(p, q) == Len(p) <= Len(q) /\ \A j \in 1..Len(p) : p[j] = q[j]

C5_SelectionOK(k, wi, wiNext, wl, wlNext) ==
    Started(k) =>
        LET c == Last(inflight'[k]) IN
        /\ Len(c.ids) + Len(c.logins) <= BatchSize
        /\ c.logins # <<>> => Len(wiNext) < BatchSize
        /\ Len(c.logins) <= BatchSize - Len(c.ids)
        /\ IsPrefix(c.ids, MapKeys(wiNext))
        /\ IsPrefix(c.logins, MapKeys(wlNext))
        \* a cycle that starts on a call or on the timer takes no key away
        /\ inflight[k] = <<>> =>
              /\ IsPrefix(MapKeys(wi), MapKeys(wiNext))
              /\ IsPrefix(MapKeys(wl), MapKeys(wlNext))

C5_BatchSelection ==
    [][ /\ C5_SelectionOK("users", _waiting_user_ids, _waiting_user_ids',
                          _waiting_user_logins, _waiting_user_logins')
        /\ C5_SelectionOK("streams", _waiting_stream_ids, _waiting_stream_ids',
                          _waiting_stream_logins, _waiting_stream_logins')
      ]_vars

\* a full batch of one id and one login, with a second login left pending
C5_Witness ==
    /\ inflight.streams # <<>>
    /\ Len(inflight.streams[1].ids) = 1
    /\ Len(inflight.streams[1].logins) = BatchSize - 1
    /\ Len(_waiting_stream_logins) > Len(inflight.streams[1].logins)
    /\ \A j \in 1..Len(inflight.streams[1].logins) :
          MapHas(_waiting_stream_logins, inflight.streams[1].logins[j])

(***************************************************************************)
(* C6: a getUserBasic or getStreamMeta call with neither id nor login      *)
(* rejects its caller at once and stays out of the batching machinery: it  *)
(* adds no registry entry, starts no cycle and arms no timer.              *)
(***************************************************************************)
C6_InvalidCall ==
    /\ Len(callers') = Len(callers) + 1
    /\ Last(callers').op \in {"getUserBasic", "getStreamMeta"}
    /\ Last(callers').space = "none"

C6_InvalidKeyStaysOut ==
    [][ C6_InvalidCall =>
          /\ Last(notified') = <<[how |-> "reject", value |-> InvalidKey,
                                  q |-> Len(issued[Last(callers').kind]),
                                  seq |-> NotifyCount(notified) + 1]>>
          /\ UNCHANGED <<userVars, streamVars, inflight, debounced, issued>>
      ]_vars

(***************************************************************************)
(* C7: getTag(id, false) on a cached id resolves at once with the cached   *)
(* record and registers nothing; getTag(id, true) on a cached record       *)
(* without description registers a waiter, and a remote tag query that     *)
(* carries the id is issued (in the finite form: has been issued by the    *)
(* time nothing is scheduled for tags any more).                           *)
(***************************************************************************)
C7_CachedGetTag ==
    \A i \in Calls :
        callers[i].op = "getTag" /\ callers[i].out # Null =>
            /\ ~callers[i].want =>
                  /\ callers[i].space = "cache"
                  /\ Len(notified[i]) = 1
                  /\ notified[i][1].how = "fulfill"
                  /\ notified[i][1].value = callers[i].out
                  /\ notified[i][1].q = callers[i].q
            /\ (callers[i].want /\ callers[i].out.description = NIL) =>
                  /\ callers[i].space = "tags"
                  /\ Quiescent("tags") =>
                        \E j \in (callers[i].q + 1)..Len(issued.tags) :
                            callers[i].key \in Range(issued.tags[j].ids)

(***************************************************************************)
(* C8: memorizeTag is idempotent and monotonic: a well-formed node applied *)
(* twice leaves the record that one application leaves, and a node without *)
(* description (or label) leaves a present description (or label) as it    *)
(* is.  Checked on every reachable cache, for every node.                  *)
(***************************************************************************)
C8_MemorizeTagIdempotentMonotonic ==
    \A node \in TagNodes, dispatch \in BOOLEAN :
        LET m1 == MemorizeTag(tag_cache, _waiting_tags, notified, node, dispatch, 0)
            m2 == MemorizeTag(m1.cache, m1.wt, m1.notified, node, dispatch, 0)
        IN  /\ m2.cache = m1.cache
            /\ m1.ok => m2.ok /\ m2.tag = m1.tag
            /\ (m1.ok /\ CacheHas(tag_cache, node.id)) =>
                  /\ (node.localizedDescription = NIL) =>
                        m1.tag.description = tag_cache[node.id].description
                  /\ (node.localizedName = NIL) =>
                        m1.tag.label = tag_cache[node.id].label

\* a record with a description is cached, and a node without one exists for it
C8_Witness ==
    \E t \in DOMAIN tag_cache :
        /\ tag_cache[t].description # NIL
        /\ \E node \in GoodTagNodes : node.id = t /\ node.localizedDescription = NIL

(***************************************************************************)
(* C9: getTagImmediate(id, cb) on an id absent from the cache returns null *)
(* and later calls cb exactly once: cb(id, record-or-null) on fulfilment,  *)
(* cb(id, null, error) on rejection.  cb runs once per notification of the *)
(* call's waiter; never twice, and (finite form) not zero times once       *)
(* nothing is scheduled for tags.                                          *)
(***************************************************************************)
C9_CallbackExactlyOnce ==
    \A i \in Calls :
        (callers[i].op = "getTagImmediate" /\ callers[i].cb /\ callers[i].out = Null) =>
            /\ Registered(i)
            /\ Len(notified[i]) <= 1
            /\ Quiescent("tags") => Len(notified[i]) = 1

(***************************************************************************)
(* C10: no waiter is notified more than once: each registered pair has at  *)
(* most one of its continuations called, at most one time.                 *)
(***************************************************************************)
C10_AtMostOneNotification ==
    \A i \in Calls : Len(notified[i]) <= 1

\* a fetch resolved a tag waiter by dispatch and a tag cycle finished later
C10_Witness ==
    /\ fetches > 0
    /\ issued.tags # <<>>
    /\ inflight.tags = <<>>
    /\ ~fault
    /\ \E i \in Calls :
          /\ callers[i].space = "tags"
          /\ Len(notified[i]) = 1
          /\ notified[i][1].how = "fulfill"
          /\ notified[i][1].q < Len(issued.tags)
          /\ notified[i][1].q = callers[i].q


(***************************************************************************)
(* C11: followUser and unfollowUser, when the mutation returns a response  *)
(* whose error field carries an application error, end with a thrown error *)
(* and return no value; a transport failure reaches the caller unchanged.  *)
(***************************************************************************)
Requests == 1..Len(requests)

C11_MutationErrorsThrown ==
    \A i \in Requests :
        (requests[i].op \in {"followUser", "unfollowUser"} /\ requests[i].pc = "done") =>
            /\ ("error" \in DOMAIN requests[i].resp /\ requests[i].resp.error # Null) =>
                  requests[i].how = "throw"
            /\ "err" \in DOMAIN requests[i].resp =>
                  /\ requests[i].how = "throw"
                  /\ requests[i].value = requests[i].resp

(***************************************************************************)
(* C14: the items getMatchingCategories and getMatchingUsers return are    *)
(* the items of the response, and every item whose primary name (name,     *)
(* login) or displayName equals the query, case-insensitively, comes       *)
(* before every item that does not; for every list the remote can return,  *)
(* lists with null items included.                                         *)
(***************************************************************************)
C14_IsMatch(item, field, query) ==
    /\ item # Null
    /\ \/ toLowerCase(item[field]) = toLowerCase(query)
       \/ toLowerCase(item.displayName) = toLowerCase(query)

C14_Count(items, x) == Cardinality({j \in 1..Len(items) : items[j] = x})

C14_ExactMatchesFirst ==
    \A i \in Requests :
        LET r == requests[i]
            field == IF r.op = "getMatchingCategories" THEN "name" ELSE "login"
        IN  (/\ r.op \in {"getMatchingCategories", "getMatchingUsers"}
             /\ r.pc = "done"
             /\ "items" \in DOMAIN r.resp) =>
                /\ r.how = "return"
                /\ Len(r.value.items) = Len(r.resp.items)
                /\ \A j \in 1..Len(r.resp.items) :
                      C14_Count(r.value.items, r.resp.items[j])
                          = C14_Count(r.resp.items, r.resp.items[j])
                /\ \A j, k \in 1..Len(r.value.items) :
                      (j < k /\ C14_IsMatch(r.value.items[k], field, r.arg)) =>
                          C14_IsMatch(r.value.items[j], field, r.arg)


(***************************************************************************)
(* C12: memorizeTag on a node without id, tagName or localizedName returns *)
(* without storing anything: tag_cache and _waiting_tags stay as they are, *)
(* no waiter is notified, nothing is thrown.  Checked on every reachable   *)
(* state, for every malformed node, with and without dispatch.             *)
(***************************************************************************)
C12_MalformedNodeIgnored ==
    \A node \in BadTagNodes, dispatch \in BOOLEAN :
        LET m == MemorizeTag(tag_cache, _waiting_tags, notified, node, dispatch, 0) IN
        /\ ~m.ok
        /\ m.cache = tag_cache
        /\ m.wt = _waiting_tags
        /\ m.notified = notified

\* waiters are pending on the id of a malformed node that carries a description
C12_Witness ==
    \E node \in BadTagNodes :
        /\ node.id # NIL
        /\ node.localizedDescription # NIL
        /\ MapHas(_waiting_tags, node.id)
        /\ ~CacheHas(tag_cache, node.id)

(***************************************************************************)
(* C13: the getStreamMeta calls of one debounce window, made while no      *)
(* stream cycle is running (at most 50 keys, nothing pending from before), *)
(* are served by exactly one remote stream query, which carries every key  *)
(* of the window, and each caller gets its own result from it.  In the     *)
(* finite form the query has been sent and has answered once nothing is    *)
(* scheduled for streams.                                                  *)
(***************************************************************************)
\* the calls with a key made after q0 stream queries, while none was running
C13_Window(q0) ==
    {i \in Calls : /\ callers[i].op = "getStreamMeta"
                   /\ callers[i].space # "none"
                   /\ callers[i].q = q0
                   /\ ~callers[i].running}

C13_NoBacklog(W, q0) ==
    \A j \in Calls :
        (callers[j].kind = "streams" /\ callers[j].space # "none" /\ j \notin W
         /\ \E i \in W : j < i) =>
            /\ notified[j] # <<>>
            /\ notified[j][1].q <= q0

C13_OneStreamQueryPerWindow ==
    \A q0 \in 0..Len(issued.streams) :
        LET W == C13_Window(q0)
            idKeys == {callers[i].key : i \in {x \in W : callers[x].space = "stream_ids"}}
            loginKeys == {callers[i].key : i \in {x \in W : callers[x].space = "stream_logins"}}
        IN  (/\ W # {}
             /\ Cardinality(idKeys) + Cardinality(loginKeys) <= BatchSize
             /\ C13_NoBacklog(W, q0)) =>
                /\ Len(issued.streams) > q0 =>
                      /\ idKeys \subseteq Range(issued.streams[q0 + 1].ids)
                      /\ loginKeys \subseteq Range(issued.streams[q0 + 1].logins)
                /\ \A i \in W : notified[i] # <<>> =>
                      /\ Len(notified[i]) = 1
                      /\ notified[i][1].q = q0 + 1
                /\ Quiescent("streams") =>
                      /\ Len(issued.streams) > q0
                      /\ \A i \in W : notified[i] # <<>>

(***************************************************************************)
(* C15: the cycle-running flag of a kind is cleared on every exit path of  *)
(* a cycle, failure as well as success: once no loader invocation of the   *)
(* kind is suspended any more, the flag is false, so that a later request  *)
(* can start a new cycle.                                                  *)
(***************************************************************************)
Loading(k) ==
    CASE k = "users" -> _loading_users
      [] k = "streams" -> _loading_streams
      [] OTHER -> _loading_tags

C15_FlagClearedOnExit ==
    \A k \in Kinds : inflight[k] = <<>> => ~Loading(k)

(***************************************************************************)
(* C16: for each kind at most one batch cycle is suspended on its remote   *)
(* call at any time, under every interleaving of requests, timer firings   *)
(* and re-arms; and the loader invoked while the flag is set sends nothing *)
(* and changes nothing: it returns at its guard.                           *)
(***************************************************************************)
C16_OneCycleInFlight ==
    /\ \A k \in Kinds :
          /\ Len(inflight[k]) <= 1
          /\ inflight[k] # <<>> => Loading(k)
    /\ LoadBegin(TRUE, _waiting_user_ids, _waiting_user_logins, inflight.users)
          = [loading |-> TRUE, calls |-> inflight.users]
    /\ LoadBegin(TRUE, _waiting_stream_ids, _waiting_stream_logins, inflight.streams)
          = [loading |-> TRUE, calls |-> inflight.streams]
    /\ LoadTagsBegin(TRUE, _waiting_tags, inflight.tags)
          = [loading |-> TRUE, calls |-> inflight.tags]

\* a request arrived while a query was outstanding and is still pending
C16_Witness ==
    \E i \in Calls :
        /\ Registered(i)
        /\ callers[i].running /\ callers[i].loading
        /\ notified[i] = <<>>
        /\ inflight[callers[i].kind] # <<>>
        /\ inflight[callers[i].kind][1].pc = "query"
        /\ callers[i].q = Len(issued[callers[i].kind])

(***************************************************************************)
(* C17: when a cycle finishes and keys remain pending in a registry of its *)
(* kind (keys beyond the selected ones, keys registered during the round   *)
(* trip), a new cycle of that kind is started, or scheduled on the         *)
(* debounce timer, by the finishing cycle itself: no caller request is     *)
(* needed to drain the backlog.                                            *)
(***************************************************************************)
\* the step ends the cycle of kind k that was suspended on its query
C17_Finished(k) ==
    /\ inflight[k] # <<>>
    /\ inflight[k][1].pc = "query"
    /\ inflight'[k] # inflight[k]

C17_Rearmed(k) ==
    \/ inflight'[k] # <<>> /\ inflight'[k][1].pc = "import"
    \/ k \in DOMAIN debounced /\ debounced'[k]

C17_RearmWhenKeysRemain ==
    [][ /\ (C17_Finished("users")
            /\ Len(_waiting_user_ids') + Len(_waiting_user_logins') > 0)
              => C17_Rearmed("users")
        /\ (C17_Finished("streams")
            /\ Len(_waiting_stream_ids') + Len(_waiting_stream_logins') > 0)
              => C17_Rearmed("streams")
        /\ (C17_Finished("tags") /\ Len(_waiting_tags') > 0)
              => C17_Rearmed("tags")
      ]_vars

(***************************************************************************)
(* C18: a successful user or stream cycle leaves every key it did not      *)
(* select untouched: a pending key outside the cycle's snapshot stays in   *)
(* its registry with all its waiters, also when the response holds an      *)
(* entity whose id or login equals that key.  Checked in every state with  *)
(* a query outstanding, for every response the query can get.              *)
(***************************************************************************)
C18_Untouched(m, mNext, selected) ==
    \A j \in 1..Len(m) :
        m[j].key \notin Range(selected) =>
            /\ MapHas(mNext, m[j].key)
            /\ MapGet(mNext, m[j].key) = m[j].waiters

C18_KindOK(kind, wi, wl, call) ==
    \A resp \in (IF kind = "users" THEN UserResponses ELSE StreamResponses) :
        LET r == LoadSuccess(wi, wl, notified, call, resp, kind, 0) IN
        /\ C18_Untouched(wi, r.wi, call.ids)
        /\ C18_Untouched(wl, r.wl, call.logins)

C18_UnselectedKeysUntouched ==
    /\ (inflight.users # <<>> /\ inflight.users[1].pc = "query") =>
          C18_KindOK("users", _waiting_user_ids, _waiting_user_logins, inflight.users[1])
    /\ (inflight.streams # <<>> /\ inflight.streams[1].pc = "query") =>
          C18_KindOK("streams", _waiting_stream_ids, _waiting_stream_logins,
                     inflight.streams[1])

(***************************************************************************)
(* C19: a tag batch response that contains a malformed node (no id, no     *)
(* tagName or no localizedName) has that node dropped silently: the cycle  *)
(* raises nothing, every selected tag leaves _waiting_tags with its        *)
(* waiters fulfilled (with the record, or with null when unmatched),       *)
(* _loading_tags is cleared and the timer is re-armed if keys remain.      *)
(***************************************************************************)
C19_HasMalformed(resp) ==
    resp.isArray /\ \E j \in 1..Len(resp.items) : resp.items[j] \in BadTagNodes

C19_MalformedNodeDropped ==
    [][ \A resp \in TagResponses :
          (C19_HasMalformed(resp) /\ ~fault /\ TagsSuccess(resp)) =>
              /\ ~fault'
              /\ ~_loading_tags'
              /\ \A k \in Range(inflight.tags[1].ids) :
                    /\ ~MapHas(_waiting_tags', k)
                    /\ MapHas(_waiting_tags, k) =>
                          \A x \in 1..Len(MapGet(_waiting_tags, k)) :
                              LET w == MapGet(_waiting_tags, k)[x] IN
                              /\ Len(notified'[w]) = Len(notified[w]) + 1
                              /\ Last(notified'[w]).how = "fulfill"
              /\ Len(_waiting_tags') > 0 => debounced'.tags
      ]_vars

(***************************************************************************)
(* C20: memorizeTag(node, dispatch) on a well-formed node, when dispatch   *)
(* is true and the resulting record has a description, fulfils every       *)
(* waiter pending on the tag's id with the cached record and removes the   *)
(* id from _waiting_tags; when dispatch is false or the record has no      *)
(* description it leaves _waiting_tags as it is and notifies nobody.       *)
(* Checked on every reachable state, for every well-formed node.           *)
(***************************************************************************)
C20_DispatchOnDescription ==
    \A node \in GoodTagNodes, dispatch \in BOOLEAN :
        LET m == MemorizeTag(tag_cache, _waiting_tags, notified, node, dispatch, 0) IN
        /\ m.ok
        /\ m.tag = m.cache[node.id]
        /\ IF dispatch /\ m.tag.description # NIL
           THEN /\ m.wt = MapDelete(_waiting_tags, node.id)
                /\ \A i \in Calls :
                      LET mine == MapHas(_waiting_tags, node.id)
                                  /\ i \in Range(MapGet(_waiting_tags, node.id))
                      IN  IF mine
                          THEN /\ Len(m.notified[i]) = Len(notified[i]) + 1
                               /\ IsPrefix(notified[i], m.notified[i])
                               /\ Last(m.notified[i]).how = "fulfill"
                               /\ Last(m.notified[i]).value = m.tag
                          ELSE m.notified[i] = notified[i]
           ELSE /\ m.wt = _waiting_tags
                /\ m.notified = notified

\* a getTag waiter was fulfilled with a described record before any tag
\* query was sent: by the dispatch of a getTopTags / getMatchingTags response
C20_Witness ==
    /\ fetches > 0
    /\ issued.tags = <<>>
    /\ \E i \in Calls :
          /\ callers[i].op = "getTag"
          /\ callers[i].space = "tags"
          /\ ~MapHas(_waiting_tags, callers[i].key)
          /\ Len(notified[i]) = 1
          /\ notified[i][1].how = "fulfill"
          /\ notified[i][1].value # Null
          /\ notified[i][1].value.description # NIL
          /\ notified[i][1].value = tag_cache[callers[i].key]

(***************************************************************************)
(* C21: waiters registered on the same key of the same space are notified  *)
(* in the order they were registered, on fulfilment, on not-found and on   *)
(* rejection, for users, streams and tags.  Calls are numbered in the      *)
(* order they were made, continuation calls in the order they happened.    *)
(***************************************************************************)
C21_RegistrationOrder ==
    \A i, j \in Calls :
        (/\ i < j
         /\ Registered(i) /\ Registered(j)
         /\ callers[i].space = callers[j].space
         /\ callers[i].key = callers[j].key
         /\ notified[j] # <<>>) =>
            /\ notified[i] # <<>>
            /\ notified[i][1].seq < notified[j][1].seq

\* two waiters of one key were fulfilled with null, one right after the
\* other, by the same loop over the key's list
C21_Witness ==
    \E i, j \in Calls :
        /\ i < j
        /\ Registered(i) /\ Registered(j)
        /\ callers[i].space = callers[j].space
        /\ callers[i].key = callers[j].key
        /\ notified[i] # <<>> /\ notified[j] # <<>>
        /\ notified[j][1].seq = notified[i][1].seq + 1
        /\ notified[i][1].how = "fulfill"
        /\ notified[i][1].value = Null

(***************************************************************************)
(* C22: a caller that registers a waiter after the remote call of a cycle  *)
(* has been issued is not notified by that cycle, whatever its key (a key  *)
(* the cycle selected included): the step that finishes the cycle leaves   *)
(* the waiter alone, for a cycle started by the re-arm to answer.          *)
(***************************************************************************)
\* call i registered after the query now outstanding for its kind was sent
C22_LateFor(i, k) ==
    /\ Registered(i)
    /\ callers[i].kind = k
    /\ callers[i].q = Len(issued[k])

C22_LateWaiterWaits ==
    [][ \A k \in Kinds :
          C17_Finished(k) =>
              \A i \in Calls : C22_LateFor(i, k) => notified'[i] = notified[i]
      ]_vars

(***************************************************************************)
(* C23: tag_cache only grows.  Under every sequence of memorizeTag calls,  *)
(* tag cycles and failures: an id that is a key of tag_cache stays one,    *)
(* its record has record.id = record.value = key, and a record that has a  *)
(* description keeps having one.                                           *)
(***************************************************************************)
C23_CacheOnlyGrows ==
    [][ /\ \A t \in DOMAIN tag_cache :
              /\ t \in DOMAIN tag_cache'
              /\ tag_cache[t].description # NIL => tag_cache'[t].description # NIL
        /\ \A t \in DOMAIN tag_cache' :
              /\ tag_cache'[t].id = t
              /\ tag_cache'[t].value = t
      ]_vars

\* a record that was cached without description when a getTag asked for it
\* has been given one since, and the other tag has been cached as well
C23_Witness ==
    /\ DOMAIN tag_cache = TagIds
    /\ \E i \in Calls :
          /\ callers[i].kind = "tags"
          /\ callers[i].out # Null
          /\ callers[i].out.description = NIL
          /\ tag_cache[callers[i].key].description # NIL

(***************************************************************************)
(* C24: when memorizeTag with dispatch (from getTopTags or                 *)
(* getMatchingTags) has resolved and removed the waiters of a tag id that  *)
(* a tag cycle in flight selected, the cycle still finishes normally,      *)
(* whatever its outcome (tag returned, tag not returned, transport         *)
(* failure): no fault is raised, the waiters of its other selected keys    *)
(* are notified and _loading_tags is not left set.                         *)
(***************************************************************************)
\* a key the cycle in flight selected has left _waiting_tags since
C24_Dispatched ==
    /\ inflight.tags # <<>>
    /\ inflight.tags[1].pc = "query"
    /\ \E k \in Range(inflight.tags[1].ids) : ~MapHas(_waiting_tags, k)

C24_FinishedNormally ==
    /\ ~fault'
    /\ ~_loading_tags'
    /\ \A k \in Range(inflight.tags[1].ids) :
          /\ ~MapHas(_waiting_tags', k)
          /\ MapHas(_waiting_tags, k) =>
                \A x \in 1..Len(MapGet(_waiting_tags, k)) :
                    LET w == MapGet(_waiting_tags, k)[x] IN
                    Len(notified'[w]) = Len(notified[w]) + 1

C24_CycleSurvivesDispatch ==
    [][ (C24_Dispatched /\ ~fault) =>
          /\ \A resp \in TagResponses :
                (~C19_HasMalformed(resp) /\ TagsSuccess(resp)) => C24_FinishedNormally
          /\ \A err \in Errors : TagsFail(err) => C24_FinishedNormally
      ]_vars

(***************************************************************************)
(* C25: in every state between two event-loop tasks, if _waiting_tags is   *)
(* not empty then a tag cycle is suspended on its remote call or the       *)
(* debounced _loadTags is pending; so a getTag that only appends to an     *)
(* existing key's list is covered by a running or scheduled cycle.         *)
(***************************************************************************)
C25_PendingTagsCovered ==
    Len(_waiting_tags) > 0 => (inflight.tags # <<>> \/ debounced.tags)

(***************************************************************************)
(* C26: a promise returned by getTag(id, want_description = true) that is  *)
(* fulfilled with a record (not null) is fulfilled with a record that has  *)
(* a description, for every response the remote can return, tag nodes      *)
(* without localizedDescription included.                                  *)
(***************************************************************************)
C26_WantedDescriptionDelivered ==
    \A i \in Calls :
        (callers[i].op = "getTag" /\ callers[i].want) =>
            \A x \in 1..Len(notified[i]) :
                (notified[i][x].how = "fulfill" /\ notified[i][x].value # Null) =>
                    notified[i][x].value.description # NIL

=============================================================================
